---- MODULE Spec2Model ----
(***************************************************************************)
(* The contribution wizard of lucide-studio                                *)
(* (src/components/ContributionDialog.tsx and                              *)
(* src/components/ContributionDialog/FormStepNames.tsx) as a state         *)
(* machine: the URL query state (step, name, contributionDialog), the two  *)
(* react-hook-form forms, the session and the two react-query mutations    *)
(* (onNameNext, onSubmit).  Texts are sequences of one-character strings.  *)
(***************************************************************************)
EXTENDS Integers, Sequences, FiniteSets, TLC

VARIABLES
    step,          \* useQueryState("step")
    name,          \* useQueryState("name")
    open,          \* useQueryState("contributionDialog")
    session,       \* useSession(): "none" or "user"
    formName,      \* nameStepForm value of "name"
    tags,          \* metadataStepForm values
    categories,
    contributors,
    serverError,   \* metadataStepForm.formState.errors.root.serverError.message
    lookupPc,      \* onNameNext mutation: "idle", "signin", "fetch"
    submitPc,      \* onSubmit mutation: "idle", "signin", "fetch", "text", "json", "wait"
    res,           \* the JSON body of the OK response onSubmit.onSuccess works on
    errText,       \* res.text() of the non-OK response mutationFn works on
    lastNameEvent, \* the last event of the name form: "none", "change", "blur",
                   \* "rejected", "accepted" ("fsn-change", "fsn-blur" in FormStepNames)
    lookupReq,     \* the GET /api/metadata/<name> in flight
    submitReq,     \* the POST /api/submit of the running onSubmit mutation
    submitCount,   \* history: number of POSTs issued
    okCount,       \* history: number of OK responses received
    windowCount,   \* history: number of window.open calls
    closeCount,    \* history: number of setOpen(false) calls of onSubmit.onSuccess
    lastWindow     \* history: the URL of the last window.open

vars == <<step, name, open, session, formName, tags, categories,
         contributors, serverError, lookupPc, submitPc, res, errText,
         lastNameEvent, lookupReq, submitReq, submitCount, okCount,
         windowCount, closeCount, lastWindow>>

None == "none"

NoRequest == [issued |-> FALSE, name |-> <<>>, user |-> None, step |-> None]
NoBody == [pullRequestExistingUrl |-> None, pullRequestCreationUrl |-> None]

----------------------------------------------------------------------------
(* Bounds *)

MaxLen == 4          \* longest text in the name input under NormSpec
MaxSubmits == 2      \* POSTs issued in one behaviour

(* Program constants *)

MinNameLen == 2
MaxNameLen == 50

----------------------------------------------------------------------------
(* Characters and JavaScript string functions *)

LowerChars == {"a", "b"}
UpperChars == {"A"}
DigitChars == {"1"}
Alphabet == {"a", "A", "1", "_", "-", " ", "!"}

RECURSIVE StringsOfLen(_)
StringsOfLen(n) ==
    IF n = 0 THEN {<<>>}
    ELSE {<<c>> \o s : c \in Alphabet, s \in StringsOfLen(n - 1)}

Strings == UNION {StringsOfLen(n) : n \in 0..MaxLen}

ToLowerChar(c) == IF c = "A" THEN "a" ELSE c

\* String.prototype.toLowerCase
ToLowerCase(s) == [i \in 1..Len(s) |-> ToLowerChar(s[i])]

\* the class \w of a JavaScript regular expression
IsWordChar(c) == c \in LowerChars \cup UpperChars \cup DigitChars \cup {"_"}

RECURSIVE DropNonWord(_)
DropNonWord(s) ==
    IF s = <<>> \/ IsWordChar(Head(s)) THEN s ELSE DropNonWord(Tail(s))

\* s.replace(/[^\w]+/g, rep)
RECURSIVE ReplaceNonWordRuns(_, _)
ReplaceNonWordRuns(s, rep) ==
    IF s = <<>> THEN <<>>
    ELSE IF IsWordChar(Head(s))
         THEN <<Head(s)>> \o ReplaceNonWordRuns(Tail(s), rep)
         ELSE <<rep>> \o ReplaceNonWordRuns(DropNonWord(Tail(s)), rep)

\* s.replaceAll(from, to) for one-character from and to
ReplaceAll(s, from, to) == [i \in 1..Len(s) |-> IF s[i] = from THEN to ELSE s[i]]

RECURSIVE TrimStart(_)
TrimStart(s) == IF s # <<>> /\ Head(s) = " " THEN TrimStart(Tail(s)) ELSE s

RECURSIVE TrimEnd(_)
TrimEnd(s) ==
    IF s # <<>> /\ s[Len(s)] = " " THEN TrimEnd(SubSeq(s, 1, Len(s) - 1)) ELSE s

\* String.prototype.trim
Trim(s) == TrimEnd(TrimStart(s))

\* arr.join("\n")
RECURSIVE JoinLines(_)
JoinLines(arr) ==
    IF arr = <<>> THEN <<>>
    ELSE IF Len(arr) = 1 THEN arr[1]
    ELSE arr[1] \o <<"\n">> \o JoinLines(Tail(arr))

\* arr.filter((val, idx, arr) => val && arr.indexOf(val) === idx)
RECURSIVE FilterUnique(_, _)
FilterUnique(arr, seen) ==
    IF arr = <<>> THEN <<>>
    ELSE IF Head(arr) = <<>> \/ Head(arr) \in seen
         THEN FilterUnique(Tail(arr), seen)
         ELSE <<Head(arr)>> \o FilterUnique(Tail(arr), seen \cup {Head(arr)})

----------------------------------------------------------------------------
(* The name input: normalisation and validation *)

\* ContributionDialog.tsx, name Input onChange
onChangeValue(raw) == ReplaceNonWordRuns(ToLowerCase(raw), "-")

\* the onBlur normalisation without the trim
onBlurValue_NoTrim(raw) ==
    ReplaceAll(ReplaceNonWordRuns(ToLowerCase(raw), " "), " ", "-")

\* ContributionDialog.tsx, name Input onBlur
onBlurValue(raw) ==
    ReplaceAll(Trim(ReplaceNonWordRuns(ToLowerCase(raw), " ")), " ", "-")

\* FormStepNames.tsx, name Input onChange
FormStepNames_onChangeValue(raw) == ReplaceNonWordRuns(ToLowerCase(raw), "-")

\* FormStepNames.tsx, name Input onBlur
FormStepNames_onBlurValue(raw) ==
    ReplaceAll(Trim(ReplaceNonWordRuns(ToLowerCase(raw), " ")), " ", "-")

\* /^[a-z][a-z0-9-]*$/
MatchesNameChars(s) ==
    /\ Len(s) >= 1
    /\ s[1] \in LowerChars
    /\ \A i \in 2..Len(s) : s[i] \in LowerChars \cup DigitChars \cup {"-"}

\* /^[a-z][a-z0-9-]*[a-z]$/
MatchesNameEnd(s) ==
    /\ Len(s) >= 2
    /\ s[1] \in LowerChars
    /\ \A i \in 2..(Len(s) - 1) : s[i] \in LowerChars \cup DigitChars \cup {"-"}
    /\ s[Len(s)] \in LowerChars

\* nameStepSchema of ContributionDialog.tsx: the message of the first check
\* that fails, "" when the name passes
nameStepSchema(s) ==
    IF Len(s) = 0 THEN "Name is required."
    ELSE IF Len(s) < MinNameLen THEN "Name must be at least 2 characters long."
    ELSE IF Len(s) > MaxNameLen
         THEN "Name must be between 2 and 50 characters long."
    ELSE IF ~MatchesNameChars(s)
         THEN "Name must start with a letter and contain only letters, numbers and dashes."
    ELSE IF ~MatchesNameEnd(s) THEN "Name must not end with a number"
    ELSE ""

\* nameStepSchema of FormStepNames.tsx
FormStepNames_nameStepSchema(s) ==
    IF Len(s) = 0 THEN "Name is required."
    ELSE IF Len(s) < MinNameLen THEN "Name must be at least 2 characters long."
    ELSE IF Len(s) > MaxNameLen
         THEN "Name must be between 2 and 50 characters long."
    ELSE IF ~MatchesNameChars(s)
         THEN "Name must start with a letter and contain only letters, numbers and dashes."
    ELSE IF ~MatchesNameEnd(s) THEN "Name must not end with a number"
    ELSE ""

\* the .transform of nameStepSchema
nameTransform(s) ==
    ReplaceAll(Trim(ReplaceAll(ToLowerCase(s), "-", " ")), " ", "-")

----------------------------------------------------------------------------
(* Inputs *)

Steps == {"name", "metadata", "review"}   \* values of ?step= in the URL
InitNames == {<<>>, <<"a", "-">>}         \* values of ?name= in the URL
\* texts typed into the name input
TypedInputs == {<<"a", "b">>, <<"a", "1">>, <<"A", " ", "b">>}
FieldInputs == {<<>>, <<"x">>}            \* texts typed into a metadata field

\* JSON.parse(session.data.user.image).login: the session of a signed-in user
\* carries the GitHub login as JSON in user.image
Login == <<"m">>

\* JSON bodies of GET /api/metadata/<name> that carry the three arrays; a body
\* that is a JSON object without them is NextFetchedMalformed, a body that is
\* not JSON is NextFetchFailed
LookupData ==
    [categories : {<<>>, << <<"c">> >>},
     tags : {<< <<"t">> >>},
     contributors : {<<>>, << <<"m">>, <<"b">> >>}]

ExistingUrl == "https://github.com/lucide-icons/lucide/pull/1"
CreationUrl == "https://github.com/lucide-icons/lucide/compare"

\* JSON bodies of an OK response of POST /api/submit
SubmitBodies ==
    [pullRequestExistingUrl : {None, ExistingUrl},
     pullRequestCreationUrl : {CreationUrl}]

ErrorBodies == {"", "Icon already exists"}   \* res.text() of a non-OK response
DefaultError == "An error occurred while submitting the form."
FetchError == "Failed to fetch"              \* message of a rejected fetch

----------------------------------------------------------------------------
(* State *)

isPendingNameNext == lookupPc # "idle"
isPendingSubmit == submitPc # "idle"

\* isPending with isPendingSubmit forgotten
isPending_NameNextOnly == isPendingNameNext

isPending == isPendingNameNext \/ isPendingSubmit

\* the component's state other than the URL query state and the session
Constructed ==
    /\ formName = name
    /\ tags = <<>>
    /\ categories = <<>>
    /\ contributors = <<>>
    /\ serverError = None
    /\ lookupPc = "idle"
    /\ submitPc = "idle"
    /\ res = NoBody
    /\ errText = ""
    /\ lastNameEvent = "none"
    /\ lookupReq = NoRequest
    /\ submitReq = NoRequest
    /\ submitCount = 0
    /\ okCount = 0
    /\ windowCount = 0
    /\ closeCount = 0
    /\ lastWindow = None

Init ==
    /\ step \in Steps
    /\ name \in InitNames
    /\ open \in BOOLEAN
    /\ session \in {"none", "user"}
    /\ Constructed

----------------------------------------------------------------------------
(* The name step *)

\* the watch subscription of the useEffect: setName(values.name) unless empty
watchName(value, old) == IF value # <<>> THEN value ELSE old

\* name Input onChange with the text raw in the input
ChangeName(raw) ==
    /\ open /\ step = "name"
    /\ formName' = onChangeValue(raw)
    /\ name' = watchName(onChangeValue(raw), name)
    /\ lastNameEvent' = "change"
    /\ UNCHANGED <<step, open, session, tags, categories, contributors,
                   serverError, lookupPc, submitPc, res, errText,
                   lookupReq, submitReq, submitCount, okCount, windowCount,
                   closeCount, lastWindow>>

\* name Input onBlur; the input shows the form value
BlurName ==
    /\ open /\ step = "name"
    /\ formName' = onBlurValue(formName)
    /\ name' = watchName(onBlurValue(formName), name)
    /\ lastNameEvent' = "blur"
    /\ UNCHANGED <<step, open, session, tags, categories, contributors,
                   serverError, lookupPc, submitPc, res, errText,
                   lookupReq, submitReq, submitCount, okCount, windowCount,
                   closeCount, lastWindow>>

NextEnabled == open /\ step = "name" /\ ~isPending

\* Next pressed, nameStepForm.handleSubmit finds an issue: onNameNext not called
NextRejected ==
    /\ NextEnabled
    /\ nameStepSchema(formName) # ""
    /\ lastNameEvent' = "rejected"
    /\ UNCHANGED <<step, name, open, session, formName, tags, categories,
                   contributors, serverError, lookupPc, submitPc, res,
                   errText, lookupReq, submitReq, submitCount, okCount,
                   windowCount, closeCount, lastWindow>>

\* Next pressed with a valid name, no user: onNameNext.mutationFn awaits signIn
NextSignIn ==
    /\ NextEnabled
    /\ nameStepSchema(formName) = ""
    /\ session = "none"
    /\ lookupPc' = "signin"
    /\ lastNameEvent' = "accepted"
    /\ UNCHANGED <<step, name, open, session, formName, tags, categories,
                   contributors, serverError, submitPc, res, errText,
                   lookupReq, submitReq, submitCount, okCount, windowCount,
                   closeCount, lastWindow>>

\* NextFetch without the check of session.data?.user
NextFetch_NoSessionCheck ==
    /\ NextEnabled
    /\ nameStepSchema(formName) = ""
    /\ lookupPc' = "fetch"
    /\ lastNameEvent' = "accepted"
    /\ lookupReq' = [issued |-> TRUE, name |-> nameTransform(formName),
                     user |-> session, step |-> step]
    /\ UNCHANGED <<step, name, open, session, formName, tags, categories,
                   contributors, serverError, submitPc, res, errText,
                   submitReq, submitCount, okCount, windowCount,
                   closeCount, lastWindow>>

\* Next pressed with a valid name, a user: fetch(`/api/metadata/${values.name}`)
NextFetch ==
    /\ NextEnabled
    /\ nameStepSchema(formName) = ""
    /\ session = "user"
    /\ lookupPc' = "fetch"
    /\ lastNameEvent' = "accepted"
    /\ lookupReq' = [issued |-> TRUE, name |-> nameTransform(formName),
                     user |-> session, step |-> step]
    /\ UNCHANGED <<step, name, open, session, formName, tags, categories,
                   contributors, serverError, submitPc, res, errText,
                   submitReq, submitCount, okCount, windowCount,
                   closeCount, lastWindow>>

\* NextSignInResolved without the return at !data
NextSignInResolved_SetsStep ==
    /\ lookupPc = "signin"
    /\ lookupPc' = "idle"
    /\ step' = "metadata"
    /\ UNCHANGED <<name, open, session, formName, tags, categories,
                   contributors, serverError, submitPc, res, errText,
                   lastNameEvent, lookupReq, submitReq, submitCount,
                   okCount, windowCount, closeCount, lastWindow>>

\* signIn resolved: mutationFn returns undefined, onSuccess returns at !data
NextSignInResolved ==
    /\ lookupPc = "signin"
    /\ lookupPc' = "idle"
    /\ UNCHANGED <<step, name, open, session, formName, tags, categories,
                   contributors, serverError, submitPc, res, errText,
                   lastNameEvent, lookupReq, submitReq, submitCount,
                   okCount, windowCount, closeCount, lastWindow>>

\* onNameNextError without the setStep("metadata")
onNameNextError_NoSetStep(sess, contr, st) ==
    IF sess = "user"
    THEN [contributors |-> Login, step |-> st]
    ELSE [contributors |-> contr, step |-> st]

\* onNameNext.onError: the new contributors and step.  Without a user
\* JSON.parse("") throws before setValue and setStep are reached.
onNameNextError(sess, contr, st) ==
    IF sess = "user"
    THEN [contributors |-> Login, step |-> "metadata"]
    ELSE [contributors |-> contr, step |-> st]

\* signIn rejected: onError
NextSignInRejected ==
    /\ lookupPc = "signin"
    /\ lookupPc' = "idle"
    /\ contributors' = onNameNextError(session, contributors, step).contributors
    /\ step' = onNameNextError(session, contributors, step).step
    /\ UNCHANGED <<name, open, session, formName, tags, categories,
                   serverError, submitPc, res, errText, lastNameEvent,
                   lookupReq, submitReq, submitCount, okCount, windowCount,
                   closeCount, lastWindow>>

\* onNameNext.onSuccess with the three arrays in data: the new field values
onNameNextSuccess(data, cats, tgs, contr) ==
    [categories |-> IF cats = <<>> THEN JoinLines(data.categories) ELSE cats,
     tags |-> IF tgs = <<>> THEN JoinLines(data.tags) ELSE tgs,
     contributors |->
        IF contr = <<>>
        THEN JoinLines(FilterUnique(data.contributors \o <<Login>>, {}))
        ELSE contr]

\* the lookup returned data: onSuccess fills the empty fields, setStep("metadata")
NextFetched(data) ==
    /\ lookupPc = "fetch"
    /\ lookupPc' = "idle"
    /\ lookupReq' = NoRequest
    /\ categories' =
          onNameNextSuccess(data, categories, tags, contributors).categories
    /\ tags' = onNameNextSuccess(data, categories, tags, contributors).tags
    /\ contributors' =
          onNameNextSuccess(data, categories, tags, contributors).contributors
    /\ step' = "metadata"
    /\ UNCHANGED <<name, open, session, formName, serverError, submitPc,
                   res, errText, lastNameEvent, submitReq, submitCount,
                   okCount, windowCount, closeCount, lastWindow>>

\* the lookup returned a JSON object without the arrays (an error body):
\* onSuccess throws at the first empty field, before any setValue, and the
\* mutation runs onError; with no empty field it reaches setStep("metadata")
NextFetchedMalformed ==
    /\ lookupPc = "fetch"
    /\ lookupPc' = "idle"
    /\ lookupReq' = NoRequest
    /\ IF categories = <<>> \/ tags = <<>> \/ contributors = <<>>
       THEN /\ contributors' =
                  onNameNextError(session, contributors, step).contributors
            /\ step' = onNameNextError(session, contributors, step).step
       ELSE /\ contributors' = contributors
            /\ step' = "metadata"
    /\ UNCHANGED <<name, open, session, formName, tags, categories,
                   serverError, submitPc, res, errText, lastNameEvent,
                   submitReq, submitCount, okCount, windowCount,
                   closeCount, lastWindow>>

\* fetch or res.json() rejected: onError
NextFetchFailed ==
    /\ lookupPc = "fetch"
    /\ lookupPc' = "idle"
    /\ lookupReq' = NoRequest
    /\ contributors' = onNameNextError(session, contributors, step).contributors
    /\ step' = onNameNextError(session, contributors, step).step
    /\ UNCHANGED <<name, open, session, formName, tags, categories,
                   serverError, submitPc, res, errText, lastNameEvent,
                   submitReq, submitCount, okCount, windowCount,
                   closeCount, lastWindow>>

----------------------------------------------------------------------------
(* The metadata step, rendered for every step other than "name" *)

\* Textarea of tags
EditTags(v) ==
    /\ open /\ step # "name"
    /\ tags' = v
    /\ UNCHANGED <<step, name, open, session, formName, categories,
                   contributors, serverError, lookupPc, submitPc, res,
                   errText, lastNameEvent, lookupReq, submitReq,
                   submitCount, okCount, windowCount, closeCount,
                   lastWindow>>

\* Textarea of categories
EditCategories(v) ==
    /\ open /\ step # "name"
    /\ categories' = v
    /\ UNCHANGED <<step, name, open, session, formName, tags, contributors,
                   serverError, lookupPc, submitPc, res, errText,
                   lastNameEvent, lookupReq, submitReq, submitCount,
                   okCount, windowCount, closeCount, lastWindow>>

\* Textarea of contributors
EditContributors(v) ==
    /\ open /\ step # "name"
    /\ contributors' = v
    /\ UNCHANGED <<step, name, open, session, formName, tags, categories,
                   serverError, lookupPc, submitPc, res, errText,
                   lastNameEvent, lookupReq, submitReq, submitCount,
                   okCount, windowCount, closeCount, lastWindow>>

\* the Back button: setStep("name")
Back ==
    /\ open /\ step # "name" /\ ~isPending
    /\ step' = "name"
    /\ UNCHANGED <<name, open, session, formName, tags, categories,
                   contributors, serverError, lookupPc, submitPc, res,
                   errText, lastNameEvent, lookupReq, submitReq,
                   submitCount, okCount, windowCount, closeCount,
                   lastWindow>>

SubmitEnabled == open /\ step # "name" /\ ~isPending

\* metadataStepSchema: the three fields are nonempty
metadataStepSchema == categories # <<>> /\ tags # <<>> /\ contributors # <<>>

\* Submit pressed, metadataStepForm.handleSubmit finds an empty field;
\* the resolver's errors replace the form's errors
SubmitRejected ==
    /\ SubmitEnabled
    /\ ~metadataStepSchema
    /\ serverError' = None
    /\ UNCHANGED <<step, name, open, session, formName, tags, categories,
                   contributors, lookupPc, submitPc, res, errText,
                   lastNameEvent, lookupReq, submitReq, submitCount,
                   okCount, windowCount, closeCount, lastWindow>>

\* Submit pressed, no user: onSubmit.mutationFn awaits signIn
SubmitSignIn ==
    /\ SubmitEnabled
    /\ metadataStepSchema
    /\ session = "none"
    /\ submitPc' = "signin"
    /\ serverError' = None
    /\ UNCHANGED <<step, name, open, session, formName, tags, categories,
                   contributors, lookupPc, res, errText, lastNameEvent,
                   lookupReq, submitReq, submitCount, okCount, windowCount,
                   closeCount, lastWindow>>

\* Submit pressed, a user: fetch("/api/submit", {method: "POST", ...}) with
\* the name of the query state
SubmitFetch ==
    /\ SubmitEnabled
    /\ metadataStepSchema
    /\ session = "user"
    /\ submitCount < MaxSubmits
    /\ submitPc' = "fetch"
    /\ serverError' = None
    /\ submitReq' = [issued |-> TRUE, name |-> name, user |-> session,
                     step |-> step]
    /\ submitCount' = submitCount + 1
    /\ UNCHANGED <<step, name, open, session, formName, tags, categories,
                   contributors, lookupPc, res, errText, lastNameEvent,
                   lookupReq, okCount, windowCount, closeCount, lastWindow>>

\* signIn resolved: mutationFn returns undefined, onSuccess returns at !res
SubmitSignInResolved ==
    /\ submitPc = "signin"
    /\ submitPc' = "idle"
    /\ UNCHANGED <<step, name, open, session, formName, tags, categories,
                   contributors, serverError, lookupPc, res, errText,
                   lastNameEvent, lookupReq, submitReq, submitCount,
                   okCount, windowCount, closeCount, lastWindow>>

\* onSubmitError without the fallback message
onSubmitError_NoDefault(message) == message

\* onSubmit.onError: the message of root.serverError
onSubmitError(message) == IF message = "" THEN DefaultError ELSE message

\* signIn rejected: onError
SubmitSignInRejected ==
    /\ submitPc = "signin"
    /\ submitPc' = "idle"
    /\ serverError' = onSubmitError(FetchError)
    /\ UNCHANGED <<step, name, open, session, formName, tags, categories,
                   contributors, lookupPc, res, errText, lastNameEvent,
                   lookupReq, submitReq, submitCount, okCount, windowCount,
                   closeCount, lastWindow>>

\* the response is OK and the 1500 ms have passed: onSuccess(res), res.json()
SubmitOk(body) ==
    /\ submitPc = "fetch"
    /\ submitPc' = "json"
    /\ res' = body
    /\ okCount' = okCount + 1
    /\ UNCHANGED <<step, name, open, session, formName, tags, categories,
                   contributors, serverError, lookupPc, errText,
                   lastNameEvent, lookupReq, submitReq, submitCount,
                   windowCount, closeCount, lastWindow>>

\* pullRequestUrl with the operands of ?? exchanged
pullRequestUrl_CreationFirst(body) ==
    IF body.pullRequestCreationUrl # None
    THEN body.pullRequestCreationUrl
    ELSE body.pullRequestExistingUrl

\* pullRequestExistingUrl ?? pullRequestCreationUrl
pullRequestUrl(body) ==
    IF body.pullRequestExistingUrl # None
    THEN body.pullRequestExistingUrl
    ELSE body.pullRequestCreationUrl

\* onSuccess after res.json(): window.open(url, "_blank")
SubmitOpenWindow ==
    /\ submitPc = "json"
    /\ submitPc' = "wait"
    /\ lastWindow' = pullRequestUrl(res)
    /\ windowCount' = windowCount + 1
    /\ UNCHANGED <<step, name, open, session, formName, tags, categories,
                   contributors, serverError, lookupPc, res, errText,
                   lastNameEvent, lookupReq, submitReq, submitCount,
                   okCount, closeCount>>

\* onSuccess after the 2000 ms: setOpen(false); the mutation is settled
SubmitClose ==
    /\ submitPc = "wait"
    /\ submitPc' = "idle"
    /\ open' = FALSE
    /\ closeCount' = closeCount + 1
    /\ res' = NoBody
    /\ submitReq' = NoRequest
    /\ UNCHANGED <<step, name, session, formName, tags, categories,
                   contributors, serverError, lookupPc, errText,
                   lastNameEvent, lookupReq, submitCount, okCount,
                   windowCount, lastWindow>>

\* the response is not OK: mutationFn awaits res.text()
SubmitNotOk(body) ==
    /\ submitPc = "fetch"
    /\ submitPc' = "text"
    /\ errText' = body
    /\ UNCHANGED <<step, name, open, session, formName, tags, categories,
                   contributors, serverError, lookupPc, res, lastNameEvent,
                   lookupReq, submitReq, submitCount, okCount, windowCount,
                   closeCount, lastWindow>>

\* throw new Error(await res.text()), the 1500 ms have passed: onError
SubmitFailed ==
    /\ submitPc = "text"
    /\ submitPc' = "idle"
    /\ serverError' = onSubmitError(errText)
    /\ errText' = ""
    /\ submitReq' = NoRequest
    /\ UNCHANGED <<step, name, open, session, formName, tags, categories,
                   contributors, lookupPc, res, lastNameEvent, lookupReq,
                   submitCount, okCount, windowCount, closeCount,
                   lastWindow>>

\* fetch rejected: onError
SubmitFetchFailed ==
    /\ submitPc = "fetch"
    /\ submitPc' = "idle"
    /\ serverError' = onSubmitError(FetchError)
    /\ submitReq' = NoRequest
    /\ UNCHANGED <<step, name, open, session, formName, tags, categories,
                   contributors, lookupPc, res, errText, lastNameEvent,
                   lookupReq, submitCount, okCount, windowCount,
                   closeCount, lastWindow>>

----------------------------------------------------------------------------
(* The dialog and the page *)

\* Dialog onOpenChange={setOpen}: the trigger button, the close button
ToggleDialog ==
    /\ open' = ~open
    /\ UNCHANGED <<step, name, session, formName, tags, categories,
                   contributors, serverError, lookupPc, submitPc, res,
                   errText, lastNameEvent, lookupReq, submitReq,
                   submitCount, okCount, windowCount, closeCount,
                   lastWindow>>

\* the page is loaded again (the return from the GitHub sign-in, a reload) with
\* the session s: the query state is kept, the component is constructed anew
PageLoad(s) ==
    /\ ~isPending
    /\ session' = s
    /\ formName' = name
    /\ tags' = <<>>
    /\ categories' = <<>>
    /\ contributors' = <<>>
    /\ serverError' = None
    /\ lastNameEvent' = "none"
    /\ UNCHANGED <<step, name, open, lookupPc, submitPc, res, errText,
                   lookupReq, submitReq, submitCount, okCount, windowCount,
                   closeCount, lastWindow>>

Next ==
    \/ \E raw \in TypedInputs : ChangeName(raw)
    \/ BlurName
    \/ NextRejected
    \/ NextSignIn
    \/ NextFetch
    \/ NextSignInResolved
    \/ NextSignInRejected
    \/ \E data \in LookupData : NextFetched(data)
    \/ NextFetchedMalformed
    \/ NextFetchFailed
    \/ \E v \in FieldInputs : EditTags(v)
    \/ \E v \in FieldInputs : EditCategories(v)
    \/ \E v \in FieldInputs : EditContributors(v)
    \/ Back
    \/ SubmitRejected
    \/ SubmitSignIn
    \/ SubmitFetch
    \/ SubmitSignInResolved
    \/ SubmitSignInRejected
    \/ \E body \in SubmitBodies : SubmitOk(body)
    \/ SubmitOpenWindow
    \/ SubmitClose
    \/ \E body \in ErrorBodies : SubmitNotOk(body)
    \/ SubmitFailed
    \/ SubmitFetchFailed
    \/ ToggleDialog
    \/ \E s \in {"none", "user"} : PageLoad(s)

Spec == Init /\ [][Next]_vars

\* a started signIn settles
NextSignInSettles == NextSignInResolved \/ NextSignInRejected

\* the lookup request completes
LookupCompletes ==
    \/ \E data \in LookupData : NextFetched(data)
    \/ NextFetchedMalformed
    \/ NextFetchFailed

\* the event loop runs the continuations and timers of a settled request
FairSpec ==
    /\ Spec
    /\ WF_vars(NextSignInSettles)
    /\ WF_vars(LookupCompletes)
    /\ WF_vars(SubmitOpenWindow)
    /\ WF_vars(SubmitClose)

----------------------------------------------------------------------------
(* The name input alone, for every text up to MaxLen: the text arrives as   *)
(* the name of the query state and is typed again                           *)

\* FormStepNames.tsx, name Input onChange: setName(value), field.onChange(value)
FormStepNames_ChangeName(raw) ==
    /\ formName' = FormStepNames_onChangeValue(raw)
    /\ name' = FormStepNames_onChangeValue(raw)
    /\ lastNameEvent' = "fsn-change"
    /\ UNCHANGED <<step, open, session, tags, categories, contributors,
                   serverError, lookupPc, submitPc, res, errText,
                   lookupReq, submitReq, submitCount, okCount, windowCount,
                   closeCount, lastWindow>>

\* FormStepNames.tsx, name Input onBlur: setName(value), field.onChange(value)
FormStepNames_BlurName ==
    /\ formName' = FormStepNames_onBlurValue(formName)
    /\ name' = FormStepNames_onBlurValue(formName)
    /\ lastNameEvent' = "fsn-blur"
    /\ UNCHANGED <<step, open, session, tags, categories, contributors,
                   serverError, lookupPc, submitPc, res, errText,
                   lookupReq, submitReq, submitCount, okCount, windowCount,
                   closeCount, lastWindow>>

NormInit ==
    /\ step = "name"
    /\ name \in Strings
    /\ open = TRUE
    /\ session = "user"
    /\ Constructed

NormNext ==
    \/ ChangeName(name)
    \/ BlurName
    \/ FormStepNames_ChangeName(name)
    \/ FormStepNames_BlurName

NormSpec == NormInit /\ [][NormNext]_vars

----------------------------------------------------------------------------
(* Claims *)

\* a request of the running mutation completes in this step
LookupSettling == lookupPc = "fetch" /\ lookupPc' = "idle"

\* C1 as stated: the step is always "name" or "metadata", and a POST to
\* /api/submit is issued only while the step is "metadata".
C1_StepIsNameOrMetadata ==
    /\ step \in {"name", "metadata"}
    /\ submitReq.issued => submitReq.step = "metadata"

\* C1, amended: the step starts at the value of the step query parameter and
\* changes only to "metadata", when the lookup of a name-step Next completes,
\* and to "name", through the Back button; a POST to /api/submit is issued
\* only while the step is not "name".
C1_StepChangesOnlyByNextAndBack ==
    /\ [][step' # step =>
            \/ step' = "metadata" /\ LookupSettling
            \/ step' = "name" /\ Back]_vars
    /\ [](submitReq.issued => submitReq.step # "name")

C1_Witness ==
    /\ lastNameEvent = "accepted"
    /\ step = "metadata"
    /\ submitPc = "fetch"
    /\ submitReq.step = "metadata"

\* C2: without a user, Next and Submit only start the sign-in: every request
\* to /api/metadata or /api/submit is issued with a user in the session, and
\* a step of a mutation without a user issues no request and leaves the step,
\* the metadata fields, the windows and the dialog as they are.
C2_NoUserOnlySignsIn ==
    /\ [](lookupReq.issued => lookupReq.user = "user")
    /\ [](submitReq.issued => submitReq.user = "user")
    /\ [][(session = "none" /\ (lookupPc' # lookupPc \/ submitPc' # submitPc)) =>
            /\ lookupPc' \in {"idle", "signin"}
            /\ submitPc' \in {"idle", "signin"}
            /\ UNCHANGED <<step, tags, categories, contributors, open,
                           lookupReq, submitReq, submitCount, windowCount,
                           closeCount, lastWindow>>]_vars

C2_Witness ==
    /\ session = "none"
    /\ serverError = FetchError
    /\ lookupPc = "signin"

\* C3 as stated: when the lookup of a Next completes, whatever its outcome,
\* each of tags, categories and contributors that was nonempty is unchanged.
C3_NonEmptyFieldsKept ==
    [][LookupSettling =>
          /\ tags # <<>> => tags' = tags
          /\ categories # <<>> => categories' = categories
          /\ contributors # <<>> => contributors' = contributors]_vars

\* C4: every OK response of a submit opens exactly one window, at the existing
\* pull request's URL when the response has one and at the creation URL
\* otherwise, and then closes the dialog, the window first; the step and the
\* name do not change while the mutation runs.
C4_OkOpensWindowThenCloses ==
    /\ [](submitPc \in {"idle", "signin", "fetch", "text"} =>
             windowCount = okCount /\ closeCount = okCount)
    /\ [](submitPc = "json" =>
             windowCount + 1 = okCount /\ closeCount = windowCount)
    /\ [](submitPc = "wait" =>
             /\ windowCount = okCount /\ closeCount + 1 = windowCount
             /\ lastWindow = IF res.pullRequestExistingUrl # None
                             THEN res.pullRequestExistingUrl
                             ELSE res.pullRequestCreationUrl)
    /\ [][(submitPc = "fetch" \/ submitPc = "json" \/ submitPc = "wait") =>
             step' = step /\ name' = name]_vars
    /\ [][closeCount' # closeCount => ~open' /\ submitPc = "wait"]_vars
    /\ (submitPc = "json") ~>
          (submitPc = "idle" /\ ~open /\ windowCount = okCount
             /\ closeCount = okCount)

C4_Witness ==
    /\ closeCount = 2
    /\ windowCount = 2
    /\ lastWindow = ExistingUrl
    /\ ~open

\* C5: a non-OK response opens no window and does not close the dialog; the
\* step and the three fields are as they were, and the form's server error is
\* the response body, or the default message when the body is empty.
C5_NotOkSetsServerError ==
    /\ [][(submitPc = "fetch" /\ submitPc' = "text") =>
             UNCHANGED <<step, name, tags, categories, contributors, open,
                         windowCount, closeCount, lastWindow>>]_vars
    /\ [][(submitPc = "text" /\ submitPc' = "idle") =>
             /\ UNCHANGED <<step, name, tags, categories, contributors, open,
                            windowCount, closeCount, lastWindow>>
             /\ serverError' =
                   IF errText = ""
                   THEN "An error occurred while submitting the form."
                   ELSE errText]_vars

C5_Witness ==
    /\ serverError = "An error occurred while submitting the form."
    /\ submitPc = "idle"
    /\ step = "metadata"
    /\ submitCount > 0
    /\ open

\* the rule of C6: 2 to 50 characters, a lowercase letter first, only lowercase
\* letters, digits and dashes, no digit last
C6_Rule(s) ==
    /\ Len(s) >= 2 /\ Len(s) <= 50
    /\ s[1] \in LowerChars
    /\ \A i \in 1..Len(s) : s[i] \in LowerChars \cup DigitChars \cup {"-"}
    /\ s[Len(s)] \notin DigitChars

\* C6 as stated: Next accepts the name of the form exactly when the name
\* follows the rule, a rejected Next starts no lookup, and the schemas of the
\* two components agree.
C6_AcceptedIffRule ==
    /\ lastNameEvent = "accepted" => C6_Rule(formName)
    /\ lastNameEvent = "rejected" => ~C6_Rule(formName) /\ lookupPc = "idle"
    /\ nameStepSchema(formName) = FormStepNames_nameStepSchema(formName)

C8_SubmittedNameIsValid ==
    submitReq.issued => nameStepSchema(submitReq.name) = ""

\* C9: the lookup and the submit are never in flight together, and while one
\* is pending no request is started and the step changes only by the
\* completion of the pending lookup.
C9_OneRequestInFlight ==
    /\ [](~(lookupPc # "idle" /\ submitPc # "idle"))
    /\ [][(lookupPc # "idle" \/ submitPc # "idle") =>
             /\ step' # step => LookupSettling
             /\ submitCount' = submitCount
             /\ lookupReq' \in {lookupReq, NoRequest}
             /\ lookupPc = "idle" => lookupPc' = "idle"
             /\ submitPc = "idle" => submitPc' = "idle"]_vars

C9_Witness ==
    /\ submitPc = "fetch"
    /\ lookupPc = "idle"
    /\ open
    /\ lastNameEvent = "accepted"

NoEdgeDash(s) == s = <<>> \/ (s[1] # "-" /\ s[Len(s)] # "-")
NoDoubleDash(s) == \A i \in 1..(Len(s) - 1) : ~(s[i] = "-" /\ s[i + 1] = "-")

\* C10: the value the name input holds after a blur is a fixed point of the
\* blur normalisation, has no dash at either end and no two dashes in a row;
\* the value it holds after a change is a fixed point of the change
\* normalisation; in both components.
C10_NormalisationIdempotent ==
    /\ lastNameEvent = "blur" =>
          /\ onBlurValue(formName) = formName
          /\ NoEdgeDash(formName) /\ NoDoubleDash(formName)
    /\ lastNameEvent = "change" => onChangeValue(formName) = formName
    /\ lastNameEvent = "fsn-blur" =>
          /\ FormStepNames_onBlurValue(formName) = formName
          /\ NoEdgeDash(formName) /\ NoDoubleDash(formName)
    /\ lastNameEvent = "fsn-change" =>
          FormStepNames_onChangeValue(formName) = formName

C10_Witness ==
    /\ lastNameEvent = "blur"
    /\ formName = <<"a", "-", "a">>

====
